---- MODULE Spec2Model ----
(***************************************************************************)
(* Model of src/index.js, the interactive cube-net demo: main() builds the *)
(* page (seven draggable sliders over an image), sets up a WebGL pipeline  *)
(* (two shaders, a program, three buffers, one texture) and draws; mouse   *)
(* and image events then re-run render().                                  *)
(*                                                                         *)
(* JavaScript numbers that the handlers compute are modelled exactly: a    *)
(* value is undefined, NaN, +/-Infinity or a rational in lowest terms.     *)
(* All image sizes used are powers of two, so the rationals of the model   *)
(* are the doubles JavaScript computes.                                    *)
(***************************************************************************)
EXTENDS Integers, Sequences, FiniteSets, TLC

VARIABLES
    pc,              \* position in main(): which statement group runs next
    mainResult,      \* how main() ended: "running", "returned", "no_webgl", "threw"
    sliders,         \* the sliders array: index -> slider element fields
    dragging,        \* the slider being dragged, or NoSlider (null)
    image,           \* the Image element: request state, width, height, load in flight
    gl,              \* what getContext("webgl") returned: "uninit", "null", "ok"
    bindings,        \* how this platform's WebGL bindings treat a null object argument
    vertexShader,    \* const vertexShader: "uninit", "null" or "shader"
    fragmentShader,  \* const fragmentShader
    program,         \* const program: "uninit", "null" or "program"
    glObjects,       \* GL-side objects: shader and program object states, current program
    errorLog,        \* what console.error was called with
    posBuffer,       \* const posBuffer: "uninit" or "buffer"
    indexBuffer,     \* const indexBuffer
    texCoordBuffer,  \* contents of the texCoord buffer (<< >> before it is created)
    texture,         \* const texture: 0 while uninitialised, else index into glTextures
    glTextures,      \* contents of each texture object created
    glBoundTexture,  \* texture bound to TEXTURE_2D (0: none)
    onloadInstalled, \* image.onload has been assigned
    onloadFired,     \* image.onload has run at least once
    moves,           \* pointer moves delivered during a drag so far
    lastRun          \* what the last handler that ran did

vars == <<pc, mainResult, sliders, dragging, image, gl, bindings, vertexShader,
          fragmentShader, program, glObjects, errorLog, posBuffer, indexBuffer,
          texCoordBuffer, texture, glTextures, glBoundTexture, onloadInstalled,
          onloadFired, moves, lastRun>>

----------------------------------------------------------------------------
(* Bounds of the model *)

\* pointer moves delivered while a slider is dragged
MaxMoves == 2
\* the user presses sliders 0..MaxSlider
MaxSlider == 1

\* clientX / clientY of the mouse events: left of and below the image,
\* inside it, and beyond its right and bottom edges
PointerPositions == {<<-1, 5>>, <<1, 3>>, <<5, 5>>}

\* natural sizes of the images that decode
ImageSizes == {<<4, 4>>, <<2, 4>>}

----------------------------------------------------------------------------
(* Program constants *)

NumSliders == 7
InitialLeft == 30
SliderRadius == 5
TextureUnit == 0
ImageOffsetLeft == 0
ImageOffsetTop == 0

NoSlider == -1
SliderIds == 0 .. (NumSliders - 1)
Vertices == 0 .. 7

----------------------------------------------------------------------------
(* JavaScript number values *)

Num(n, d) == [k |-> "num", n |-> n, d |-> d]
Undefined == [k |-> "undefined", n |-> 0, d |-> 1]
NaN == [k |-> "NaN", n |-> 0, d |-> 1]
Infinity(sign) == [k |-> "Infinity", n |-> sign, d |-> 1]

Abs(a) == IF a < 0 THEN -a ELSE a

RECURSIVE GCD(_, _)
GCD(a, b) == IF b = 0 THEN a ELSE GCD(b, a % b)

\* a / b for integers a and b >= 0, as JavaScript's division gives it
JsDiv(a, b) ==
    IF b = 0
    THEN IF a = 0 THEN NaN ELSE IF a > 0 THEN Infinity(1) ELSE Infinity(-1)
    ELSE LET g == GCD(Abs(a), b) IN
         IF a = 0 THEN Num(0, 1) ELSE Num(a \div g, b \div g)

MathMin(a, b) == IF a < b THEN a ELSE b
MathMax(a, b) == IF a > b THEN a ELSE b

Clamp(lo, hi, v) == MathMax(lo, MathMin(hi, v))

----------------------------------------------------------------------------
(* Handler records *)

\* What one handler run did: the event, the pointer position and the dragged
\* slider of a mousemove, how many times it entered render(), what render()
\* threw, whether drawElements was reached and with which texture contents,
\* program and sampler unit, and how many image uploads it made.
Ran(event, r) ==
    [event |-> event, x |-> 0, y |-> 0, target |-> NoSlider, imageUploads |-> 0,
     renders |-> r.renders, threw |-> r.threw, draws |-> r.draws,
     drawTexture |-> r.drawTexture, drawProgram |-> r.drawProgram,
     drawUnit |-> r.drawUnit]

\* contents of a texture object
TextureData(kind, width, height) == [kind |-> kind, width |-> width, height |-> height]
NoTexture == TextureData("none", 0, 0)

NoRender ==
    [renders |-> 0, threw |-> "", draws |-> 0, drawTexture |-> NoTexture,
     drawProgram |-> "", drawUnit |-> TextureUnit]

\* render(): the 2D canvas is cleared and drawImage(image) runs first;
\* drawImage throws InvalidStateError for an image whose request is broken.
\* Then the GL calls: gl is null when getContext failed (TypeError), and
\* posBuffer is still in its temporal dead zone when main() threw before
\* creating it (ReferenceError). Otherwise the buffers and the texture are
\* bound to unit 0 and drawElements is issued with the current program.
render(imageState, textureData) ==
    IF imageState = "broken"
    THEN [NoRender EXCEPT !.renders = 1, !.threw = "InvalidStateError"]
    ELSE IF gl # "ok"
    THEN [NoRender EXCEPT !.renders = 1, !.threw = "TypeError"]
    ELSE IF posBuffer = "uninit"
    THEN [NoRender EXCEPT !.renders = 1, !.threw = "ReferenceError"]
    ELSE [renders |-> 1, threw |-> "", draws |-> 1, drawTexture |-> textureData,
          drawProgram |-> glObjects.current, drawUnit |-> TextureUnit]

----------------------------------------------------------------------------
(* main() *)

\* lines 58-66: left is "30px"; top and the two percentages are not set
NewSlider ==
    [posInImageXPercent |-> Undefined, posInImageYPercent |-> Undefined,
     left |-> Num(InitialLeft, 1), top |-> Undefined]

NewImage == [state |-> "unavailable", width |-> 0, height |-> 0, loading |-> FALSE]

Init ==
    /\ pc = "dom"
    /\ mainResult = "running"
    /\ sliders = << >>
    /\ dragging = NoSlider
    /\ image = NewImage
    /\ gl = "uninit"
    /\ bindings = "unknown"
    /\ vertexShader = "uninit"
    /\ fragmentShader = "uninit"
    /\ program = "uninit"
    /\ glObjects = [vertex |-> "none", fragment |-> "none", program |-> "none",
                    attached |-> {}, current |-> "null"]
    /\ errorLog = {}
    /\ posBuffer = "uninit"
    /\ indexBuffer = "uninit"
    /\ texCoordBuffer = << >>
    /\ texture = 0
    /\ glTextures = << >>
    /\ glBoundTexture = 0
    /\ onloadInstalled = FALSE
    /\ onloadFired = FALSE
    /\ moves = 0
    /\ lastRun = Ran("none", NoRender)

\* lines 34-123: the page, the image element, the seven sliders with their
\* mousedown handlers, dragging = null, the body's mousemove and mouseup
\* handlers, the upload button
MainDom ==
    /\ pc = "dom"
    /\ sliders' = [i \in SliderIds |-> NewSlider]
    /\ dragging' = NoSlider
    /\ pc' = "context"
    /\ UNCHANGED <<mainResult, image, gl, bindings, vertexShader, fragmentShader,
                   program, glObjects, errorLog, posBuffer, indexBuffer,
                   texCoordBuffer, texture, glTextures, glBoundTexture,
                   onloadInstalled, onloadFired, moves, lastRun>>

\* lines 126-131: getContext("webgl"); without WebGL main() returns
MainGetContext(supported) ==
    /\ pc = "context"
    /\ IF supported
       THEN /\ gl' = "ok"
            /\ pc' = "shaders"
            /\ UNCHANGED <<mainResult, errorLog>>
       ELSE /\ gl' = "null"
            /\ errorLog' = errorLog \cup {"WebGL not supported"}
            /\ mainResult' = "no_webgl"
            /\ pc' = "idle"
    /\ UNCHANGED <<sliders, dragging, image, bindings, vertexShader,
                   fragmentShader, program, glObjects, posBuffer, indexBuffer,
                   texCoordBuffer, texture, glTextures, glBoundTexture,
                   onloadInstalled, onloadFired, moves, lastRun>>

\* loadShader: the shader handle, or null after logging the info log and
\* deleting the shader object
loadShader(compiled) == IF compiled THEN "shader" ELSE "null"

\* the GL shader object loadShader leaves behind
loadShaderObject(compiled) == IF compiled THEN "compiled" ELSE "deleted"

\* console.error of loadShader
loadShaderLog(compiled, diagnostic) == IF compiled THEN {} ELSE {diagnostic}

\* lines 161-162: both shaders are loaded, whatever the first one returned
MainLoadShaders(vsCompiles, fsCompiles) ==
    /\ pc = "shaders"
    /\ vertexShader' = loadShader(vsCompiles)
    /\ fragmentShader' = loadShader(fsCompiles)
    /\ glObjects' = [glObjects EXCEPT !.vertex = loadShaderObject(vsCompiles),
                                      !.fragment = loadShaderObject(fsCompiles)]
    /\ errorLog' = errorLog
                     \cup loadShaderLog(vsCompiles, "Error compiling shader: vertex info log")
                     \cup loadShaderLog(fsCompiles, "Error compiling shader: fragment info log")
    /\ pc' = "program"
    /\ UNCHANGED <<mainResult, sliders, dragging, image, gl, bindings, program,
                   posBuffer, indexBuffer, texCoordBuffer, texture, glTextures,
                   glBoundTexture, onloadInstalled, onloadFired, moves, lastRun>>

\* createProgram: attachShader of a null shader either throws a TypeError
\* (bindings whose object arguments are not nullable) or records
\* INVALID_VALUE and goes on (bindings whose object arguments are
\* nullable); a program with a shader missing does not link. A program that
\* does not link is logged and deleted, and null is returned.
createProgram(vs, fs, linkOk, platform) ==
    LET nullArg == vs = "null" \/ fs = "null"
        attached == (IF vs = "null" THEN {} ELSE {"vertex"})
                      \cup (IF fs = "null" \/ (vs = "null" /\ platform = "strict")
                            THEN {} ELSE {"fragment"})
    IN  IF nullArg /\ platform = "strict"
        THEN [threw |-> TRUE, handle |-> "uninit", object |-> "created",
              attached |-> attached, log |-> {}]
        ELSE IF ~nullArg /\ linkOk
        THEN [threw |-> FALSE, handle |-> "program", object |-> "linked",
              attached |-> attached, log |-> {}]
        ELSE [threw |-> FALSE, handle |-> "null", object |-> "deleted",
              attached |-> attached, log |-> {"Error linking program: info log"}]

\* the bindings this platform has: fixed once a call has shown them
Platform(b) == IF bindings = "unknown" THEN b ELSE bindings

\* line 164
MainCreateProgram(linkOk, b) ==
    /\ pc = "program"
    /\ LET nullArg == vertexShader = "null" \/ fragmentShader = "null"
           r == createProgram(vertexShader, fragmentShader, linkOk, Platform(b))
       IN  /\ nullArg => linkOk
           /\ bindings' = IF nullArg THEN Platform(b) ELSE bindings
           /\ program' = r.handle
           /\ glObjects' = [glObjects EXCEPT !.program = r.object,
                                             !.attached = r.attached]
           /\ errorLog' = errorLog \cup r.log
           /\ IF r.threw
              THEN mainResult' = "threw" /\ pc' = "idle"
              ELSE mainResult' = mainResult /\ pc' = "locations"
    /\ UNCHANGED <<sliders, dragging, image, gl, vertexShader, fragmentShader,
                   posBuffer, indexBuffer, texCoordBuffer, texture, glTextures,
                   glBoundTexture, onloadInstalled, onloadFired, moves, lastRun>>

\* lines 166-178: useProgram accepts null; getAttribLocation of a null
\* program throws a TypeError or records INVALID_VALUE, as the bindings have it
MainUseProgram(b) ==
    /\ pc = "locations"
    /\ glObjects' = [glObjects EXCEPT !.current = program]
    /\ bindings' = IF program = "null" THEN Platform(b) ELSE bindings
    /\ IF program = "null" /\ Platform(b) = "strict"
       THEN mainResult' = "threw" /\ pc' = "idle"
       ELSE mainResult' = mainResult /\ pc' = "buffers"
    /\ UNCHANGED <<sliders, dragging, image, gl, vertexShader, fragmentShader,
                   program, errorLog, posBuffer, indexBuffer, texCoordBuffer,
                   texture, glTextures, glBoundTexture, onloadInstalled,
                   onloadFired, moves, lastRun>>

\* lines 216-227: the eight texture coordinates uploaded with STATIC_DRAW
InitialTexCoords ==
    [v \in Vertices |->
        CASE v = 0 -> <<Num(0, 1), Num(1, 1)>>
          [] v = 1 -> <<Num(1, 2), Num(1, 1)>>
          [] v = 2 -> <<Num(0, 1), Num(1, 2)>>
          [] v = 3 -> <<Num(1, 2), Num(1, 2)>>
          [] v = 4 -> <<Num(1, 1), Num(1, 1)>>
          [] v = 5 -> <<Num(0, 1), Num(0, 1)>>
          [] v = 6 -> <<Num(1, 2), Num(0, 1)>>
          [] v = 7 -> <<Num(1, 1), Num(1, 2)>>]

\* lines 203-235
MainSetupBuffers ==
    /\ pc = "buffers"
    /\ posBuffer' = "buffer"
    /\ texCoordBuffer' = InitialTexCoords
    /\ indexBuffer' = "buffer"
    /\ pc' = "texture"
    /\ UNCHANGED <<mainResult, sliders, dragging, image, gl, bindings,
                   vertexShader, fragmentShader, program, glObjects, errorLog,
                   texture, glTextures, glBoundTexture, onloadInstalled,
                   onloadFired, moves, lastRun>>

\* a setup that created the texture and uploaded nothing into it
PlaceholderUpload_Missing == TextureData("empty", 0, 0)

\* lines 255-266: the 1x1 opaque blue pixel uploaded into the bound texture
PlaceholderUpload == TextureData("pixel", 1, 1)

\* lines 238-266: one texture object is created, bound, and given the pixel
MainSetupTexture ==
    /\ pc = "texture"
    /\ glTextures' = Append(glTextures, PlaceholderUpload)
    /\ texture' = Len(glTextures) + 1
    /\ glBoundTexture' = Len(glTextures) + 1
    /\ pc' = "image"
    /\ UNCHANGED <<mainResult, sliders, dragging, image, gl, bindings,
                   vertexShader, fragmentShader, program, glObjects, errorLog,
                   posBuffer, indexBuffer, texCoordBuffer, onloadInstalled,
                   onloadFired, moves, lastRun>>

\* image.src = ...: a new request starts. A completely available image is
\* kept as the current request until the new one settles; an unavailable or
\* broken one is replaced at once.
SetSrc(img) ==
    IF img.state = "available"
    THEN [img EXCEPT !.loading = TRUE]
    ELSE [state |-> "unavailable", width |-> 0, height |-> 0, loading |-> TRUE]

\* lines 268-273
MainImage ==
    /\ pc = "image"
    /\ onloadInstalled' = TRUE
    /\ image' = SetSrc(image)
    /\ pc' = "render"
    /\ UNCHANGED <<mainResult, sliders, dragging, gl, bindings, vertexShader,
                   fragmentShader, program, glObjects, errorLog, posBuffer,
                   indexBuffer, texCoordBuffer, texture, glTextures,
                   glBoundTexture, onloadFired, moves, lastRun>>

\* lines 276-287 and 342: the matrices, then the startup render()
MainRender ==
    /\ pc = "render"
    /\ lastRun' = Ran("startup", render(image.state, glTextures[texture]))
    /\ glBoundTexture' = texture
    /\ mainResult' = "returned"
    /\ pc' = "idle"
    /\ UNCHANGED <<sliders, dragging, image, gl, bindings, vertexShader,
                   fragmentShader, program, glObjects, errorLog, posBuffer,
                   indexBuffer, texCoordBuffer, texture, glTextures,
                   onloadInstalled, onloadFired, moves>>

----------------------------------------------------------------------------
(* Event handlers, run once main() has ended (returned or thrown) *)

\* lines 68-70: slider.onmousedown
SliderOnMouseDown(i) ==
    /\ pc = "idle"
    /\ dragging' = i
    /\ lastRun' = Ran("mousedown", NoRender)
    /\ UNCHANGED <<pc, mainResult, sliders, image, gl, bindings, vertexShader,
                   fragmentShader, program, glObjects, errorLog, posBuffer,
                   indexBuffer, texCoordBuffer, texture, glTextures,
                   glBoundTexture, onloadInstalled, onloadFired, moves>>

\* lines 79-95: the fields the handler writes on the dragged slider. The
\* stored percentages are computed from the unclamped pointer position; the
\* displayed position is computed from the clamped one.
DragUpdate(slider, x, y, img) ==
    LET posInImageX == x - ImageOffsetLeft
        posInImageY == y - ImageOffsetTop
        clampedClientCenterX ==
            MathMax(ImageOffsetLeft, MathMin(ImageOffsetLeft + img.width, x))
        clampedClientCenterY ==
            MathMax(ImageOffsetTop, MathMin(ImageOffsetTop + img.height, y))
    IN  [slider EXCEPT
            !.posInImageXPercent = JsDiv(posInImageX, img.width),
            !.posInImageYPercent = JsDiv(posInImageY, img.height),
            !.left = Num(clampedClientCenterX - SliderRadius, 1),
            !.top = Num(clampedClientCenterY - SliderRadius, 1)]

\* a handler that moved every slider to the pointer
UpdateSliders_AllFollow(s, d, x, y, img) ==
    [i \in DOMAIN s |-> DragUpdate(s[i], x, y, img)]

\* the sliders array after a mousemove while slider d is dragged
UpdateSliders(s, d, x, y, img) == [s EXCEPT ![d] = DragUpdate(s[d], x, y, img)]

\* the data of the texture object that const texture names
CurrentTextureData == IF texture = 0 THEN NoTexture ELSE glTextures[texture]

\* a handler that coalesced moves: no redraw for a move that directly
\* follows another move
MoveRender_Coalesced ==
    IF lastRun.event = "mousemove" THEN NoRender
    ELSE render(image.state, CurrentTextureData)

\* line 97: what a mousemove handler run does after updating the dragged slider
MoveRender == render(image.state, CurrentTextureData)

\* lines 77-99: document.body.onmousemove
BodyOnMouseMove(x, y) ==
    /\ pc = "idle"
    /\ IF dragging # NoSlider
       THEN /\ moves < MaxMoves
            /\ moves' = moves + 1
            /\ sliders' = UpdateSliders(sliders, dragging, x, y, image)
            /\ lastRun' = [Ran("mousemove", MoveRender) EXCEPT
                              !.x = x, !.y = y, !.target = dragging]
            /\ glBoundTexture' = IF MoveRender.draws = 1 THEN texture
                                 ELSE glBoundTexture
       ELSE /\ lastRun' = [Ran("mousemove", NoRender) EXCEPT !.x = x, !.y = y]
            /\ UNCHANGED <<moves, sliders, glBoundTexture>>
    /\ UNCHANGED <<pc, mainResult, dragging, image, gl, bindings, vertexShader,
                   fragmentShader, program, glObjects, errorLog, posBuffer,
                   indexBuffer, texCoordBuffer, texture, glTextures,
                   onloadInstalled, onloadFired>>

\* a mouseup handler that left the drag in place
MouseUpDragging_Kept == dragging

\* line 102: what onmouseup assigns to dragging
MouseUpDragging == NoSlider

\* lines 101-103: document.body.onmouseup
BodyOnMouseUp ==
    /\ pc = "idle"
    /\ dragging' = MouseUpDragging
    /\ lastRun' = Ran("mouseup", NoRender)
    /\ UNCHANGED <<pc, mainResult, sliders, image, gl, bindings, vertexShader,
                   fragmentShader, program, glObjects, errorLog, posBuffer,
                   indexBuffer, texCoordBuffer, texture, glTextures,
                   glBoundTexture, onloadInstalled, onloadFired, moves>>

\* lines 115-122: the file the user chose has been read; image.src is set
ReaderOnLoad ==
    /\ pc = "idle"
    /\ image' = SetSrc(image)
    /\ lastRun' = Ran("readerload", NoRender)
    /\ UNCHANGED <<pc, mainResult, sliders, dragging, gl, bindings,
                   vertexShader, fragmentShader, program, glObjects, errorLog,
                   posBuffer, indexBuffer, texCoordBuffer, texture, glTextures,
                   glBoundTexture, onloadInstalled, onloadFired, moves>>

\* an onload that put each decoded image into a texture object of its own
OnLoadTexture_Fresh(textures, size) ==
    [textures |-> Append(textures, TextureData("image", size[1], size[2])),
     bound |-> Len(textures) + 1]

\* lines 269-270: image.onload's bindTexture(texture) and texImage2D(image):
\* the texture objects afterwards and the one bound. The decoded image
\* replaces the contents of the object const texture names.
OnLoadTexture(textures, size) ==
    [textures |-> [textures EXCEPT ![texture] = TextureData("image", size[1], size[2])],
     bound |-> texture]

\* lines 268-272: the image has decoded; image.onload runs if main() got as
\* far as assigning it
ImageOnLoad(size) ==
    /\ pc = "idle"
    /\ image.loading
    /\ image' = [state |-> "available", width |-> size[1], height |-> size[2],
                 loading |-> FALSE]
    /\ IF onloadInstalled
       THEN LET t == OnLoadTexture(glTextures, size) IN
            /\ glTextures' = t.textures
            /\ glBoundTexture' = t.bound
            /\ onloadFired' = TRUE
            /\ lastRun' = [Ran("load", render("available", t.textures[texture]))
                              EXCEPT !.imageUploads = 1]
       ELSE /\ lastRun' = Ran("load", NoRender)
            /\ UNCHANGED <<glTextures, glBoundTexture, onloadFired>>
    /\ UNCHANGED <<pc, mainResult, sliders, dragging, gl, bindings,
                   vertexShader, fragmentShader, program, glObjects, errorLog,
                   posBuffer, indexBuffer, texCoordBuffer, texture,
                   onloadInstalled, moves>>

\* the image failed to load or decode: its request is broken; no handler is
\* registered for the error event
ImageOnError ==
    /\ pc = "idle"
    /\ image.loading
    /\ image' = [state |-> "broken", width |-> 0, height |-> 0, loading |-> FALSE]
    /\ lastRun' = Ran("error", NoRender)
    /\ UNCHANGED <<pc, mainResult, sliders, dragging, gl, bindings,
                   vertexShader, fragmentShader, program, glObjects, errorLog,
                   posBuffer, indexBuffer, texCoordBuffer, texture, glTextures,
                   glBoundTexture, onloadInstalled, onloadFired, moves>>

----------------------------------------------------------------------------

Next ==
    \/ MainDom
    \/ \E supported \in BOOLEAN : MainGetContext(supported)
    \/ \E vsCompiles, fsCompiles \in BOOLEAN : MainLoadShaders(vsCompiles, fsCompiles)
    \/ \E linkOk \in BOOLEAN, b \in {"strict", "lenient"} : MainCreateProgram(linkOk, b)
    \/ \E b \in {"strict", "lenient"} : MainUseProgram(b)
    \/ MainSetupBuffers
    \/ MainSetupTexture
    \/ MainImage
    \/ MainRender
    \/ \E i \in 0 .. MaxSlider : SliderOnMouseDown(i)
    \/ \E p \in PointerPositions : BodyOnMouseMove(p[1], p[2])
    \/ BodyOnMouseUp
    \/ ReaderOnLoad
    \/ \E size \in ImageSizes : ImageOnLoad(size)
    \/ ImageOnError

Spec == Init /\ [][Next]_vars

----------------------------------------------------------------------------
(* Notions the claims use *)

\* the marker each cube-net vertex takes its texture coordinate from:
\* vertices 6 and 7 are the same cube corner (6(y+)/7(x+)) and share marker 6
VertexMarker == [v \in Vertices |-> IF v = 7 THEN 6 ELSE v]

\* the (imageFractionX, imageFractionY) pair a slider stores
Fraction(slider) == <<slider.posInImageXPercent, slider.posInImageYPercent>>

\* a stored value that is a number in [0, 1]
InUnitRange(value) == value.k = "num" /\ 0 <= value.n /\ value.n <= value.d

\* the last handler run was a mousemove delivered during a drag
DragMoveRan == lastRun.event = "mousemove" /\ lastRun.target # NoSlider

\* main() ran to its end with both shaders compiled and the program linked
PipelineReady == mainResult = "returned" /\ program = "program"

\* the point of the image's bounding box nearest to a pointer position
NearestX(x, img) == Clamp(ImageOffsetLeft, ImageOffsetLeft + img.width, x)
NearestY(y, img) == Clamp(ImageOffsetTop, ImageOffsetTop + img.height, y)

----------------------------------------------------------------------------
(* Claims *)

\* C1: at every render that a pointer move of a drag triggers (the pipeline
\* having been set up without failure), the texCoord buffer entry of each of
\* the 8 vertices equals the current fraction pair of the marker the vertex
\* is bound to.
C1_TexCoordsFollowMarkers ==
    (PipelineReady /\ DragMoveRan /\ lastRun.renders = 1)
        => \A v \in Vertices :
              texCoordBuffer[v] = Fraction(sliders[VertexMarker[v]])

\* C2: on an image of non-zero size, the fraction pair a drag stores for a
\* pointer position equals the pair a drag to the nearest point of the
\* image's bounding box stores.
C2_OutsideStoresNearestBoundary ==
    (PipelineReady /\ DragMoveRan /\ image.width > 0 /\ image.height > 0)
        => Fraction(sliders[lastRun.target])
             = Fraction(DragUpdate(sliders[lastRun.target],
                                   NearestX(lastRun.x, image),
                                   NearestY(lastRun.y, image), image))

\* C3: from marker creation onward every marker has a defined
\* imageFractionX and imageFractionY, both in [0, 1].
C3_FractionsInUnitRange ==
    \A i \in DOMAIN sliders :
        /\ InUnitRange(sliders[i].posInImageXPercent)
        /\ InUnitRange(sliders[i].posInImageYPercent)

\* C4: a pointer move of a drag that arrives while imageWidth or imageHeight
\* is zero is a no-op: no marker fraction changes (so no quotient by the zero
\* dimension is stored) and the texCoord buffer is unchanged.
C4_ZeroSizeMoveIsNoOp ==
    [][(PipelineReady /\ lastRun'.event = "mousemove" /\ lastRun'.target # NoSlider
          /\ (image.width = 0 \/ image.height = 0))
         => (/\ \A i \in SliderIds : Fraction(sliders'[i]) = Fraction(sliders[i])
             /\ texCoordBuffer' = texCoordBuffer)]_vars

\* C5: a pointer move during a drag changes the stored fraction pair of the
\* dragged marker only; the other six markers keep theirs.
C5_OtherMarkersUnchanged ==
    [][(lastRun'.event = "mousemove" /\ lastRun'.target # NoSlider)
         => \A i \in SliderIds \ {lastRun'.target} :
               Fraction(sliders'[i]) = Fraction(sliders[i])]_vars

\* a move of one marker has happened while another marker holds a different
\* fraction pair stored by an earlier drag
C5_Witness ==
    /\ DragMoveRan
    /\ sliders[lastRun.target].posInImageXPercent.k = "num"
    /\ \E j \in SliderIds \ {lastRun.target} :
          /\ sliders[j].posInImageXPercent.k = "num"
          /\ Fraction(sliders[j]) # Fraction(sliders[lastRun.target])

\* C6: rendering is event-driven: main() that runs to its end renders once
\* at startup; every pointer move delivered during a drag enters render()
\* exactly once inside its own handler run, whatever the move before it was;
\* and nothing but the startup, such a move and image.onload renders.
C6_EventDrivenRender ==
    /\ mainResult = "returned" => lastRun.event # "none"
    /\ lastRun.event = "startup" => lastRun.renders = 1
    /\ DragMoveRan => lastRun.renders = 1
    /\ lastRun.renders = 1
         => (lastRun.event \in {"startup", "load"} \/ DragMoveRan)
    /\ lastRun.renders \in {0, 1}

\* a second move of a drag has been delivered and has rendered
C6_Witness == DragMoveRan /\ moves >= 2 /\ lastRun.renders = 1 /\ lastRun.draws = 1

\* C7: every draw issued before image.onload has fired, the startup draw
\* and the draws of drags alike, is issued with the 1x1 placeholder pixel in
\* the texture bound to sampler unit 0.
C7_PlaceholderUntilLoad ==
    (lastRun.draws = 1 /\ ~onloadFired)
        => /\ lastRun.drawTexture = TextureData("pixel", 1, 1)
           /\ lastRun.drawUnit = 0
           /\ glBoundTexture = texture

\* the draw of a second drag move, with no image loaded yet
C7_Witness ==
    DragMoveRan /\ moves >= 2 /\ lastRun.draws = 1 /\ ~onloadFired
      /\ image.state = "unavailable"

\* C8: a run of image.onload uploads the decoded image into the texture
\* object created at initialization and renders exactly once after it; no
\* second texture object is ever created; once main() has ended, texture
\* contents change only in a run of image.onload.
C8_LoadReplacesSameTexture ==
    [][/\ (lastRun'.event = "load" /\ onloadInstalled)
            => /\ glTextures' = [glTextures EXCEPT ![texture] =
                                    TextureData("image", image'.width, image'.height)]
               /\ glBoundTexture' = texture
               /\ lastRun'.imageUploads = 1
               /\ lastRun'.renders = 1
               /\ lastRun'.draws = 1 => lastRun'.drawTexture = glTextures'[texture]
       /\ Len(glTextures') <= 1
       /\ (pc = "idle" /\ glTextures' # glTextures)
            => (lastRun'.event = "load" /\ image.loading /\ image'.state = "available")
      ]_vars

\* image.onload has run: the texture holds the decoded image and was drawn
C8_Witness ==
    /\ lastRun.event = "load" /\ lastRun.imageUploads = 1
    /\ lastRun.renders = 1 /\ lastRun.draws = 1
    /\ texture = 1 /\ glTextures[1].kind = "image"

\* C9: a decode failure leaves the texture contents as they were; with the
\* pipeline set up, every later render a drag triggers still reaches its
\* cube draw; and a later successful load still replaces the texture.
C9_DecodeFailureNonFatal ==
    [][/\ lastRun'.event = "error" => glTextures' = glTextures
       /\ (PipelineReady /\ image.state = "broken"
             /\ lastRun'.event = "mousemove" /\ lastRun'.target # NoSlider)
            => lastRun'.draws = 1
       /\ (PipelineReady /\ lastRun'.event = "load")
            => glTextures'[texture].kind = "image"
      ]_vars

\* a shader failed to compile or the program failed to link
ShaderFailure == vertexShader = "null" \/ fragmentShader = "null" \/ program = "null"

\* C10: after a compile or link failure the diagnostic has been reported,
\* main() has been abandoned, no buffer or texture exists, and no draw call
\* is issued.
C10_InitAbortsOnShaderFailure ==
    ShaderFailure
        => /\ errorLog # {}
           /\ pc = "idle" => mainResult = "threw"
           /\ posBuffer = "uninit" /\ indexBuffer = "uninit" /\ texture = 0
           /\ lastRun.draws = 0

\* the link step was given two compiled shaders and has returned a program
\* or null
LinkReturned ==
    /\ vertexShader = "shader" /\ fragmentShader = "shader"
    /\ program \in {"program", "null"}

\* a shader object is owned by a live program
OwnedByLiveProgram(shader) ==
    glObjects.program = "linked" /\ shader \in glObjects.attached

\* C11: once the link step has returned (given the two shader objects the
\* compile step created), no shader object is leaked: after a
\* link failure the partial program is released and so is every shader
\* object, and on any outcome each shader object that was created is deleted
\* or owned by a live program.
C11_NoShaderLeak ==
    LinkReturned
        => /\ program = "null"
                => /\ glObjects.program = "deleted"
                   /\ glObjects.vertex # "compiled"
                   /\ glObjects.fragment # "compiled"
           /\ \A shader \in {"vertex", "fragment"} :
                 glObjects[shader] = "compiled" => OwnedByLiveProgram(shader)

\* C12: a pointer move delivered while no marker is dragged (before the
\* first mousedown, or after a mouseup and until the next mousedown) changes
\* no marker's fraction or displayed position and triggers no render; a
\* mouseup ends the drag, only a mousedown starts one, and at most one
\* marker is the dragged one.
C12_NoDragNoEffect ==
    [][/\ (lastRun'.event = "mousemove" /\ dragging = NoSlider)
            => /\ sliders' = sliders
               /\ lastRun'.renders = 0 /\ lastRun'.draws = 0
               /\ lastRun'.target = NoSlider
       /\ lastRun'.event = "mouseup" => dragging' = NoSlider
       /\ dragging' # dragging => lastRun'.event \in {"mousedown", "mouseup"}
       /\ (dragging' # NoSlider /\ dragging' # dragging)
            => lastRun'.event = "mousedown"
       /\ dragging' \in SliderIds \cup {NoSlider}
      ]_vars

\* a marker was dragged, the drag was ended by a mouseup, and a pointer move
\* has been delivered since: the marker still holds what the drag stored
C12_Witness ==
    /\ lastRun.event = "mousemove" /\ lastRun.target = NoSlider
    /\ dragging = NoSlider
    /\ moves >= 1
    /\ \E i \in SliderIds : sliders[i].posInImageXPercent.k = "num"

\* C13: after a pointer move of a drag on an image of non-zero size, the
\* dragged marker's displayed centre is the image's top-left corner plus
\* (imageFractionX * imageWidth, imageFractionY * imageHeight).
C13_DisplayedCentreMatchesFraction ==
    (PipelineReady /\ DragMoveRan /\ image.width > 0 /\ image.height > 0)
        => LET s == sliders[lastRun.target]
               fx == s.posInImageXPercent
               fy == s.posInImageYPercent
           IN  /\ fx.k = "num" /\ fy.k = "num"
               /\ (s.left.n + SliderRadius - ImageOffsetLeft) * fx.d
                     = fx.n * image.width
               /\ (s.top.n + SliderRadius - ImageOffsetTop) * fy.d
                     = fy.n * image.height

====
